---- MODULE Spec2Model ----
(***************************************************************************)
(* Model of myia/anf_ir.py: the ANF node graph, its edge-aware input list  *)
(* (class Inputs) and ANFNode.replace.                                     *)
(*                                                                         *)
(* Nodes are numbered 1..NumNodes.  data[n] is n.inputs.data (a Python     *)
(* list, kept here as a 1-based sequence and addressed with Python's       *)
(* 0-based / negative indexing through the List* operators), uses[n] is    *)
(* n.uses, a set of pairs <<user, index>>.                                 *)
(*                                                                         *)
(* Every method is an operator from a heap record                          *)
(*   [data |-> ..., uses |-> ..., err |-> ...]                              *)
(* to the heap it leaves behind; err names the exception that escaped      *)
(* ("ok" when none did).  An exception leaves the edits made before it.    *)
(***************************************************************************)
EXTENDS Integers, Sequences, FiniteSets, TLC

\* ---------------------------------------------------------------- bounds
NumNodes == 3
MaxEdges == 3

Nodes == 1 .. NumNodes

\* ------------------------------------------------------ program constants
PARAMETER == "PARAMETER"
RETURN == "RETURN"
None == "None"
G == "G"

VARIABLES data, uses, value, graph, call, result, pre, frame

vars == <<data, uses, value, graph, call, result, pre, frame>>

\* ------------------------------------------------- Python list primitives
Min(a, b) == IF a < b THEN a ELSE b
Max(a, b) == IF a > b THEN a ELSE b

\* list[i] is defined for -len <= i < len
ListValid(s, i) == -Len(s) <= i /\ i < Len(s)
\* the 0-based position list[i] denotes
ListPos(s, i) == IF i < 0 THEN i + Len(s) ELSE i
ListGet(s, i) == s[ListPos(s, i) + 1]
ListSet(s, i, v) == [s EXCEPT ![ListPos(s, i) + 1] = v]
ListDel(s, i) == SubSeq(s, 1, ListPos(s, i)) \o SubSeq(s, ListPos(s, i) + 2, Len(s))
\* where a slice bound or list.insert position i lands after clamping
ListClamp(s, i) == IF i < 0 THEN Max(i + Len(s), 0) ELSE Min(i, Len(s))
\* list[i:]
ListFrom(s, i) == SubSeq(s, ListClamp(s, i) + 1, Len(s))
\* a slip: list.append(v) where list.insert(i, v) is meant
ListInsert_append(s, i, v) == Append(s, v)

\* list.insert(i, v)
ListInsert(s, i, v) ==
    SubSeq(s, 1, ListClamp(s, i)) \o <<v>> \o SubSeq(s, ListClamp(s, i) + 1, Len(s))
\* reversed(list)
Reversed(s) == [k \in 1 .. Len(s) |-> s[Len(s) + 1 - k]]

\* ------------------------------------------------------------ index values
IntIx(i) == [kind |-> "int", i |-> i, stop |-> 0]
SliceIx(a, b) == [kind |-> "slice", i |-> a, stop |-> b]
IsSlice(ix) == ix.kind = "slice"

\* ------------------------------------------------------------------- heap
Heap(d, u) == [data |-> d, uses |-> u, err |-> "ok"]
Ok(st) == st.err = "ok"
Raise(st, e) == [st EXCEPT !.err = e]

\* a slip: the pairs are removed by their index alone, whoever the user is
uses_remove_any_user(st, m, pair) ==
    IF pair \in st.uses[m]
    THEN [st EXCEPT !.uses[m] = {pr \in @ : pr[2] # pair[2]}]
    ELSE Raise(st, "KeyError")

\* set.remove(pair): KeyError when the pair is absent
uses_remove(st, m, pair) ==
    IF pair \in st.uses[m]
    THEN [st EXCEPT !.uses[m] = @ \ {pair}]
    ELSE Raise(st, "KeyError")

\* set.add(pair)
uses_add(st, m, pair) == [st EXCEPT !.uses[m] = @ \cup {pair}]

\* ------------------------------------------------------ Inputs.__getitem__
getitem_err(st, n, i) ==
    IF ListValid(st.data[n], i) THEN "ok" ELSE "IndexError"

getitem_ret(st, n, i) ==
    IF ListValid(st.data[n], i) THEN ListGet(st.data[n], i) ELSE 0

\* ------------------------------------------------------ Inputs.__setitem__
\* a slip: the new pair is added before the old one is removed
setitem_add_first(st, n, ix, v) ==
    IF IsSlice(ix) THEN Raise(st, "ValueError")
    ELSE LET index == IF ix.i < 0 THEN ix.i + Len(st.data[n]) ELSE ix.i IN
         IF ~ListValid(st.data[n], index) THEN Raise(st, "IndexError")
         ELSE LET old_value == ListGet(st.data[n], index)
                  s1 == uses_add(st, v, <<n, index>>)
                  s2 == uses_remove(s1, old_value, <<n, index>>)
              IN IF ~Ok(s2) THEN s2
                 ELSE [s2 EXCEPT !.data[n] = ListSet(@, index, v)]

setitem(st, n, ix, v) ==
    IF IsSlice(ix) THEN Raise(st, "ValueError")
    ELSE LET index == IF ix.i < 0 THEN ix.i + Len(st.data[n]) ELSE ix.i IN
         IF ~ListValid(st.data[n], index) THEN Raise(st, "IndexError")
         ELSE LET old_value == ListGet(st.data[n], index)
                  s1 == uses_remove(st, old_value, <<n, index>>)
                  s2 == uses_add(s1, v, <<n, index>>)
              IN IF ~Ok(s1) THEN s1
                 ELSE [s2 EXCEPT !.data[n] = ListSet(@, index, v)]

\* ------------------------------------------------------ Inputs.__delitem__
\* One entry <<next_value, removed index, added index>> per iteration of
\*   for i, next_value in enumerate(self.data[index + 1:])
\* in the order of the iterations; s is self.data.
\* a slip: the re-keyed pair keeps its index
delitem_rekeys_noshift(s, index) ==
    [k \in 1 .. Len(ListFrom(s, index + 1)) |->
        <<ListFrom(s, index + 1)[k], (k - 1) + index + 1, (k - 1) + index + 1>>]

\* a slip: the elements after the deleted one are re-keyed last to first
delitem_rekeys_descending(s, index) ==
    [k \in 1 .. Len(ListFrom(s, index + 1)) |->
        <<ListFrom(s, index + 1)[Len(ListFrom(s, index + 1)) + 1 - k],
          Len(s) - k, Len(s) - k - 1>>]

delitem_rekeys(s, index) ==
    [k \in 1 .. Len(ListFrom(s, index + 1)) |->
        <<ListFrom(s, index + 1)[k], (k - 1) + index + 1, (k - 1) + index>>]

RECURSIVE delitem_loop(_, _, _)
\* the body of the loop, for the iterations rekeys that are left
delitem_loop(st, n, rekeys) ==
    IF rekeys = <<>> THEN st
    ELSE LET next_value == Head(rekeys)[1]
             s1 == uses_remove(st, next_value, <<n, Head(rekeys)[2]>>)
         IN IF ~Ok(s1) THEN s1
            ELSE delitem_loop(uses_add(s1, next_value, <<n, Head(rekeys)[3]>>),
                              n, Tail(rekeys))

\* a slip: the isinstance(index, slice) test is missing, and index < 0 on a
\* slice raises TypeError
delitem_no_slice_test(st, n, ix) ==
    IF IsSlice(ix) THEN Raise(st, "TypeError")
    ELSE LET index == IF ix.i < 0 THEN ix.i + Len(st.data[n]) ELSE ix.i IN
         IF ~ListValid(st.data[n], index) THEN Raise(st, "IndexError")
         ELSE LET val == ListGet(st.data[n], index)
                  s1 == uses_remove(st, val, <<n, index>>)
                  s2 == delitem_loop(s1, n, delitem_rekeys(st.data[n], index))
              IN IF ~Ok(s1) THEN s1
                 ELSE IF ~Ok(s2) THEN s2
                 ELSE [s2 EXCEPT !.data[n] = ListDel(@, index)]

delitem(st, n, ix) ==
    IF IsSlice(ix) THEN Raise(st, "ValueError")
    ELSE LET index == IF ix.i < 0 THEN ix.i + Len(st.data[n]) ELSE ix.i IN
         IF ~ListValid(st.data[n], index) THEN Raise(st, "IndexError")
         ELSE LET val == ListGet(st.data[n], index)
                  s1 == uses_remove(st, val, <<n, index>>)
                  s2 == delitem_loop(s1, n, delitem_rekeys(st.data[n], index))
              IN IF ~Ok(s1) THEN s1
                 ELSE IF ~Ok(s2) THEN s2
                 ELSE [s2 EXCEPT !.data[n] = ListDel(@, index)]

\* ------------------------------------------------------------ Inputs.insert
\* a slip: a negative index is used as it was given
insert_index_raw(s, i0) == i0

\* the index insert works with: a negative one has len(self) added
insert_index(s, i0) == IF i0 < 0 THEN i0 + Len(s) ELSE i0

\* One entry <<next_value, removed index, added index>> per iteration of
\*   for i, next_value in enumerate(reversed(self.data[index:]))
\* in the order of the iterations; s is self.data.
\* a slip: the elements are re-keyed from the insertion point upwards
insert_rekeys_ascending(s, index) ==
    [k \in 1 .. Len(ListFrom(s, index)) |->
        <<ListFrom(s, index)[k],
          ListClamp(s, index) + (k - 1), ListClamp(s, index) + (k - 1) + 1>>]

insert_rekeys(s, index) ==
    [k \in 1 .. Len(ListFrom(s, index)) |->
        <<Reversed(ListFrom(s, index))[k], Len(s) - (k - 1) - 1, Len(s) - (k - 1)>>]

RECURSIVE insert_loop(_, _, _)
\* the body of the loop, for the iterations rekeys that are left
insert_loop(st, n, rekeys) ==
    IF rekeys = <<>> THEN st
    ELSE LET next_value == Head(rekeys)[1]
             s1 == uses_remove(st, next_value, <<n, Head(rekeys)[2]>>)
         IN IF ~Ok(s1) THEN s1
            ELSE insert_loop(uses_add(s1, next_value, <<n, Head(rekeys)[3]>>),
                             n, Tail(rekeys))

insert(st, n, i0, v) ==
    LET index == insert_index(st.data[n], i0)
        s1 == insert_loop(st, n, insert_rekeys(st.data[n], index))
        s2 == uses_add(s1, v, <<n, index>>)
    IN IF ~Ok(s1) THEN s1
       ELSE [s2 EXCEPT !.data[n] = ListInsert(@, index, v)]

\* a slip: append puts the value in front
append_front(st, n, v) == insert(st, n, 0, v)

\* MutableSequence.append
append(st, n, v) == insert(st, n, Len(st.data[n]), v)

RECURSIVE extend(_, _, _)
\* MutableSequence.extend: append every value in turn
extend(st, n, values) ==
    IF values = <<>> THEN st
    ELSE LET s1 == append(st, n, Head(values))
         IN IF ~Ok(s1) THEN s1 ELSE extend(s1, n, Tail(values))

\* clear that empties the list and leaves the use-sets as they were
clear_data_only(st, n) == [st EXCEPT !.data[n] = <<>>]

RECURSIVE clear(_, _)
\* MutableSequence.clear: pop() until IndexError; pop is self[-1], del self[-1]
clear(st, n) ==
    IF getitem_err(st, n, -1) = "IndexError" THEN st
    ELSE LET s1 == delitem(st, n, IntIx(-1))
         IN IF ~Ok(s1) THEN s1 ELSE clear(s1, n)

\* Inputs.__init__ on a new, empty container of node n
Inputs(st, n, initlist) == extend([st EXCEPT !.data[n] = <<>>], n, initlist)

\* a slip: the old container is dropped without self._inputs.clear()
inputs_setter_no_clear(st, n, val) == Inputs(st, n, val)

\* ANFNode.inputs setter
inputs_setter(st, n, val) ==
    LET s1 == clear(st, n)
    IN IF ~Ok(s1) THEN s1 ELSE Inputs(s1, n, val)

\* ---------------------------------------------------------- ANFNode.__init__
\* self._inputs = Inputs(self, inputs), then self.uses = set(); value and
\* graph are set in between, by the action
ANFNode_init(st, n, inputs) ==
    LET s1 == Inputs(st, n, inputs)
    IN IF ~Ok(s1) THEN s1 ELSE [s1 EXCEPT !.uses[n] = {}]

\* a slip: Return hands no input to ANFNode.__init__
Return_inputs_none(input_) == <<>>

\* the inputs Return.__init__ hands to ANFNode.__init__: [input_]
Return_inputs(input_) == <<input_>>

\* ---------------------------------------------------------- ANFNode.replace
RECURSIVE replace_loop(_, _, _, _, _)
\* for node, index in self.uses: node.inputs[index] = other
\* The set is iterated live, in an order the hashes decide: every order is
\* possible.  Each step of the iterator raises RuntimeError when the set's
\* size differs from the size it had when the iteration began.
replace_loop(st, self, other, todo, size0) ==
    IF Cardinality(st.uses[self]) # size0 THEN {Raise(st, "RuntimeError")}
    ELSE IF todo = {} THEN {st}
    ELSE UNION { LET s1 == setitem(st, u[1], IntIx(u[2]), other)
                 IN IF ~Ok(s1) THEN {s1}
                    ELSE replace_loop(s1, self, other, todo \ {u}, size0)
                 : u \in todo }

\* a slip: self.inputs.clear() is left out
replace_no_clear(st, self, other) ==
    LET s1 == inputs_setter(st, other, st.data[self])
    IN IF ~Ok(s1) THEN {s1}
       ELSE replace_loop(s1, self, other, s1.uses[self], Cardinality(s1.uses[self]))

replace(st, self, other) ==
    LET s1 == inputs_setter(st, other, st.data[self])
        s2 == clear(s1, self)
    IN IF ~Ok(s1) THEN {s1}
       ELSE IF ~Ok(s2) THEN {s2}
       ELSE replace_loop(s2, self, other, s2.uses[self], Cardinality(s2.uses[self]))

\* Inputs.__len__
len(st, n) == Len(st.data[n])

RECURSIVE iter_from(_, _, _)
\* Sequence.__iter__: self[0], self[1], ... until IndexError
iter_from(st, n, i) ==
    IF getitem_err(st, n, i) = "IndexError" THEN <<>>
    ELSE <<getitem_ret(st, n, i)>> \o iter_from(st, n, i + 1)

\* ANFNode.incoming: iter(self.inputs)
incoming(st, n) == iter_from(st, n, 0)

\* ANFNode.outgoing: one node per pair of self.uses, in the set's order;
\* the nodes yielded, as the number of times each one is yielded
outgoing(st, n) ==
    [u \in Nodes |-> Cardinality({pr \in st.uses[n] : pr[1] = u})]

\* ------------------------------------------------------------------ inputs
TotalEdges == LET RECURSIVE Sum(_)
                  Sum(k) == IF k = 0 THEN 0 ELSE Len(data[k]) + Sum(k - 1)
              IN Sum(NumNodes)

\* integer indices tried on a list of length n: below -2n, -2n..-n-1,
\* -n..-1, 0..n-1, n and n+1
IntIndices(n) == (-(2 * n + 1)) .. (n + 1)

\* the same for get, set and delete, where n is already past the end
ItemIndices(n) == (-(2 * n + 1)) .. n

\* the empty slice [0:0] and the slice [0:2]
Slices == {SliceIx(0, 0), SliceIx(0, 2)}

Indices(n) == {IntIx(i) : i \in ItemIndices(n)} \cup Slices

Call(op, n, ix, v) == [op |-> op, node |-> n, ix |-> ix, value |-> v]

Result(e, r) == [err |-> e, ret |-> r]

Here == Heap(data, uses)

\* N.inputs[i] is M iff (N, i) is in M.uses
Consistent(d, u) ==
    /\ \A n \in Nodes : \A k \in 0 .. Len(d[n]) - 1 : <<n, k>> \in u[d[n][k + 1]]
    /\ \A m \in Nodes : \A pr \in u[m] :
          /\ 0 <= pr[2]
          /\ pr[2] < Len(d[pr[1]])
          /\ d[pr[1]][pr[2] + 1] = m

NoCall == Call("none", 0, IntIx(0), 0)

\* A caller makes one call at a time, on a graph whose edges agree in both
\* directions; a heap that a call has left otherwise is not explored further.
\* The heap st becomes the state, as the outcome of call c; pre keeps the
\* heap the call started from.
Ready == call.op = NoCall.op /\ Consistent(data, uses)

Finish(c, st, r) ==
    /\ data' = st.data
    /\ uses' = st.uses
    /\ call' = c
    /\ result' = Result(st.err, r)
    /\ pre' = [data |-> data, uses |-> uses]
    /\ UNCHANGED <<value, graph, frame>>

\* no call is in the middle of its statements
FrameIdle == [pc |-> "idle", index |-> 0, rekeys |-> <<>>]

\* ----------------------------------------------------------------- actions
Init ==
    /\ data = [n \in Nodes |-> <<>>]
    /\ uses = [n \in Nodes |-> {}]
    /\ value = [n \in Nodes |-> PARAMETER]
    /\ graph = [n \in Nodes |-> G]
    /\ call = NoCall
    /\ result = Result("ok", 0)
    /\ pre = [data |-> data, uses |-> uses]
    /\ frame = FrameIdle

GetItem(n, i) ==
    /\ Ready
    /\ Finish(Call("get", n, IntIx(i), 0),
           Raise(Here, getitem_err(Here, n, i)), getitem_ret(Here, n, i))

SetItem(n, ix, v) ==
    /\ Ready
    /\ Finish(Call("set", n, ix, v), setitem(Here, n, ix, v), 0)

DelItem(n, ix) ==
    /\ Ready
    /\ Finish(Call("delete", n, ix, 0), delitem(Here, n, ix), 0)

Insert(n, i, v) ==
    /\ Ready
    /\ TotalEdges < MaxEdges
    /\ Finish(Call("insert", n, IntIx(i), v), insert(Here, n, i, v), 0)

Clear(n) ==
    /\ Ready
    /\ Finish(Call("clear", n, IntIx(0), 0), clear(Here, n), 0)

Replace(self, other) ==
    /\ Ready
    /\ self # other
    /\ \E st \in replace(Here, self, other) :
          Finish(Call("replace", self, IntIx(0), other), st, 0)

LenOf(n) ==
    /\ Ready
    /\ Finish(Call("len", n, IntIx(0), 0), Here, len(Here, n))

Incoming(n) ==
    /\ Ready
    /\ Finish(Call("incoming", n, IntIx(0), 0), Here, incoming(Here, n))

Outgoing(n) ==
    /\ Ready
    /\ Finish(Call("outgoing", n, IntIx(0), 0), Here, outgoing(Here, n))

\* the call has returned or raised; the caller goes on to its next call
Resume ==
    /\ call.op # NoCall.op
    /\ frame = FrameIdle
    /\ call' = NoCall
    /\ result' = Result("ok", 0)
    /\ pre' = [data |-> data, uses |-> uses]
    /\ UNCHANGED <<data, uses, value, graph, frame>>

\* the nodes the caller may call on: none while a call's outcome is pending
Targets == IF call.op = NoCall.op THEN Nodes ELSE {}

Next ==
    \/ \E n \in Targets : \E i \in ItemIndices(Len(data[n])) : GetItem(n, i)
    \/ \E n \in Targets, v \in Nodes : \E ix \in Indices(Len(data[n])) : SetItem(n, ix, v)
    \/ \E n \in Targets : \E ix \in Indices(Len(data[n])) : DelItem(n, ix)
    \/ \E n \in Targets, v \in Nodes : \E i \in IntIndices(Len(data[n])) : Insert(n, i, v)
    \/ \E n \in Targets : Clear(n)
    \/ \E n \in Targets : LenOf(n)
    \/ \E n \in Targets : Incoming(n)
    \/ \E n \in Targets : Outgoing(n)
    \/ \E a \in Targets, b \in Nodes : Replace(a, b)
    \/ Resume

Spec == Init /\ [][Next]_vars

\* ------------------------------------------------------------ constructors
\* Nodes come into being one by one through the four constructors; a node
\* that is not constructed yet has the value Absent.  Inputs are taken from
\* the nodes constructed so far.
Absent == "absent"

\* the values Constant nodes are built with
ConstantValues == {"k0"}

Made == {n \in Nodes : value[n] # Absent}

\* the node the next constructor call builds: none while a call is pending
\* or when every node is built
Fresh == IF call.op = NoCall.op /\ Made # Nodes THEN {Cardinality(Made) + 1} ELSE {}

\* the sequences of at most k nodes of S
SeqsUpTo(S, k) == UNION {[1 .. m -> S] : m \in 0 .. k}

\* the constructor call c has built node n with value val in graph g
Construct(c, n, inputs, val, g) ==
    LET st == ANFNode_init(Here, n, inputs)
    IN /\ data' = st.data
       /\ uses' = st.uses
       /\ value' = [value EXCEPT ![n] = val]
       /\ graph' = [graph EXCEPT ![n] = g]
       /\ call' = c
       /\ result' = Result(st.err, 0)
       /\ pre' = [data |-> data, uses |-> uses]
       /\ UNCHANGED frame

InitCtor ==
    /\ data = [n \in Nodes |-> <<>>]
    /\ uses = [n \in Nodes |-> {}]
    /\ value = [n \in Nodes |-> Absent]
    /\ graph = [n \in Nodes |-> Absent]
    /\ call = NoCall
    /\ result = Result("ok", 0)
    /\ pre = [data |-> data, uses |-> uses]
    /\ frame = FrameIdle

Apply(n, inputs) ==
    /\ Ready
    /\ TotalEdges + Len(inputs) <= MaxEdges
    /\ Construct(Call("Apply", n, IntIx(0), inputs), n, inputs, None, G)

Parameter(n) ==
    /\ Ready
    /\ Construct(Call("Parameter", n, IntIx(0), 0), n, <<>>, PARAMETER, G)

Return(n, input_) ==
    /\ Ready
    /\ TotalEdges < MaxEdges
    /\ Construct(Call("Return", n, IntIx(0), input_), n, Return_inputs(input_), RETURN, G)

Constant(n, val) ==
    /\ Ready
    /\ Construct(Call("Constant", n, IntIx(0), 0), n, <<>>, val, None)

AppendTo(n, v) ==
    /\ Ready
    /\ TotalEdges < MaxEdges
    /\ Finish(Call("append", n, IntIx(0), v), append(Here, n, v), 0)

\* the nodes a caller can hold: the constructed ones, none while a call is pending
Held == IF call.op = NoCall.op THEN Made ELSE {}

\* the nodes a caller appends inputs to: the applications it holds
Applications == {n \in Held : value[n] = None}

NextCtor ==
    \/ \E n \in Fresh : \E inputs \in SeqsUpTo(Made, MaxEdges) : Apply(n, inputs)
    \/ \E n \in Fresh : Parameter(n)
    \/ \E n \in Fresh : \E input_ \in Made : Return(n, input_)
    \/ \E n \in Fresh : \E val \in ConstantValues : Constant(n, val)
    \/ \E n \in Applications, v \in Held : AppendTo(n, v)
    \/ Resume

SpecCtor == InitCtor /\ [][NextCtor]_vars

\* ------------------------------------------ insert and delete, step by step
\* The same two methods with every uses.remove, every uses.add and the final
\* list edit as a step of its own.  frame.pc is the statement to run next,
\* frame.index the normalised index, frame.rekeys the loop iterations left.
Running == Result("running", 0)

\* leave the method: it returned (err = "ok") or raised
Leave(err) ==
    /\ result' = Result(err, 0)
    /\ frame' = FrameIdle

\* insert, lines 194-196: normalise the index, set up the loop
InsertBegin(n, i0, v) ==
    /\ Ready
    /\ TotalEdges < MaxEdges
    /\ call' = Call("insert", n, IntIx(i0), v)
    /\ pre' = [data |-> data, uses |-> uses]
    /\ result' = Running
    /\ frame' = LET index == insert_index(data[n], i0)
                    rekeys == insert_rekeys(data[n], index)
                IN [pc |-> IF rekeys = <<>> THEN "value" ELSE "remove",
                    index |-> index, rekeys |-> rekeys]
    /\ UNCHANGED <<data, uses, value, graph>>

\* insert, line 197: next_value.uses.remove(...)
InsertRemove ==
    /\ call.op = "insert"
    /\ frame.pc = "remove"
    /\ LET s1 == uses_remove(Here, Head(frame.rekeys)[1], <<call.node, Head(frame.rekeys)[2]>>)
       IN IF Ok(s1)
          THEN uses' = s1.uses /\ frame' = [frame EXCEPT !.pc = "add"] /\ UNCHANGED result
          ELSE Leave(s1.err) /\ UNCHANGED uses
    /\ UNCHANGED <<data, value, graph, call, pre>>

\* insert, line 198: next_value.uses.add(...)
InsertAdd ==
    /\ call.op = "insert"
    /\ frame.pc = "add"
    /\ uses' = uses_add(Here, Head(frame.rekeys)[1], <<call.node, Head(frame.rekeys)[3]>>).uses
    /\ frame' = [frame EXCEPT !.pc = IF Tail(frame.rekeys) = <<>> THEN "value" ELSE "remove",
                              !.rekeys = Tail(@)]
    /\ UNCHANGED <<data, value, graph, call, pre, result>>

\* insert, line 199: value.uses.add((self.node, index))
InsertValue ==
    /\ call.op = "insert"
    /\ frame.pc = "value"
    /\ uses' = uses_add(Here, call.value, <<call.node, frame.index>>).uses
    /\ frame' = [frame EXCEPT !.pc = "data"]
    /\ UNCHANGED <<data, value, graph, call, pre, result>>

\* insert, line 200: self.data.insert(index, value)
InsertData ==
    /\ call.op = "insert"
    /\ frame.pc = "data"
    /\ data' = [data EXCEPT ![call.node] = ListInsert(@, frame.index, call.value)]
    /\ Leave("ok")
    /\ UNCHANGED <<uses, value, graph, call, pre>>

\* delete, lines 177-181: the slice test, normalise the index, read the value
DeleteBegin(n, ix) ==
    /\ Ready
    /\ call' = Call("delete", n, ix, 0)
    /\ pre' = [data |-> data, uses |-> uses]
    /\ IF IsSlice(ix) THEN Leave("ValueError")
       ELSE LET index == IF ix.i < 0 THEN ix.i + Len(data[n]) ELSE ix.i
            IN IF ~ListValid(data[n], index) THEN Leave("IndexError")
               ELSE /\ result' = Running
                    /\ frame' = [pc |-> "value", index |-> index,
                                 rekeys |-> delitem_rekeys(data[n], index)]
    /\ UNCHANGED <<data, uses, value, graph>>

\* delete, line 182: value.uses.remove((self.node, index))
DeleteValue ==
    /\ call.op = "delete"
    /\ frame.pc = "value"
    /\ LET s1 == uses_remove(Here, ListGet(data[call.node], frame.index),
                             <<call.node, frame.index>>)
       IN IF Ok(s1)
          THEN /\ uses' = s1.uses
               /\ frame' = [frame EXCEPT !.pc = IF frame.rekeys = <<>> THEN "data" ELSE "remove"]
               /\ UNCHANGED result
          ELSE Leave(s1.err) /\ UNCHANGED uses
    /\ UNCHANGED <<data, value, graph, call, pre>>

\* delete, line 184: next_value.uses.remove(...)
DeleteRemove ==
    /\ call.op = "delete"
    /\ frame.pc = "remove"
    /\ LET s1 == uses_remove(Here, Head(frame.rekeys)[1], <<call.node, Head(frame.rekeys)[2]>>)
       IN IF Ok(s1)
          THEN uses' = s1.uses /\ frame' = [frame EXCEPT !.pc = "add"] /\ UNCHANGED result
          ELSE Leave(s1.err) /\ UNCHANGED uses
    /\ UNCHANGED <<data, value, graph, call, pre>>

\* delete, line 185: next_value.uses.add(...)
DeleteAdd ==
    /\ call.op = "delete"
    /\ frame.pc = "add"
    /\ uses' = uses_add(Here, Head(frame.rekeys)[1], <<call.node, Head(frame.rekeys)[3]>>).uses
    /\ frame' = [frame EXCEPT !.pc = IF Tail(frame.rekeys) = <<>> THEN "data" ELSE "remove",
                              !.rekeys = Tail(@)]
    /\ UNCHANGED <<data, value, graph, call, pre, result>>

\* delete, line 186: del self.data[index]
DeleteData ==
    /\ call.op = "delete"
    /\ frame.pc = "data"
    /\ data' = [data EXCEPT ![call.node] = ListDel(@, frame.index)]
    /\ Leave("ok")
    /\ UNCHANGED <<uses, value, graph, call, pre>>

NextSteps ==
    \/ \E n \in Targets, v \in Nodes : \E i \in IntIndices(Len(data[n])) : InsertBegin(n, i, v)
    \/ InsertRemove
    \/ InsertAdd
    \/ InsertValue
    \/ InsertData
    \/ \E n \in Targets : \E ix \in Indices(Len(data[n])) : DeleteBegin(n, ix)
    \/ DeleteValue
    \/ DeleteRemove
    \/ DeleteAdd
    \/ DeleteData
    \/ Resume

SpecSteps == Init /\ [][NextSteps]_vars

\* ============================================================== properties
\* the positions at which the list s holds node m (0-based)
PositionsOf(s, m) == {k \in 0 .. Len(s) - 1 : s[k + 1] = m}

\* the indices i of the pairs (n, i) in the use-set u[m]
KeyedBy(u, n, m) == {pr[2] : pr \in {q \in u[m] : q[1] = n}}

\* every pair keyed by owner n sits exactly where the list d[n] says
OwnerExact(d, u, n) == \A m \in Nodes : KeyedBy(u, n, m) = PositionsOf(d[n], m)

Returned(op) == call.op = op /\ Consistent(pre.data, pre.uses)

IntCall == call.ix.kind = "int"

\* C1: bidirectional edge consistency: in every state reached through insert,
\* delete, set, clear and replace calls, N.inputs[i] is M iff (N, i) is in
\* M.uses, for all nodes N, M and every index i.
C1_BidirectionalConsistency == Consistent(data, uses)

\* C2: replace postcondition: after A.replace(B), A has no inputs and no
\* uses, B holds A's former input list with the pairs (B, j), and every pair
\* (U, i) formerly in A.uses has U.inputs[i] = B and (U, i) in B.uses, for
\* any number of uses of A.  Stated for users U other than A and B.
C2_ReplacePostcondition ==
    (Returned("replace") /\ \A pr \in pre.uses[call.node] : pr[1] \notin {call.node, call.value})
    => LET A == call.node
           B == call.value
       IN /\ data[A] = <<>>
          /\ uses[A] = {}
          /\ data[B] = pre.data[A]
          /\ \A j \in 0 .. Len(pre.data[A]) - 1 : <<B, j>> \in uses[pre.data[A][j + 1]]
          /\ \A pr \in pre.uses[A] :
                /\ ListValid(data[pr[1]], pr[2])
                /\ ListGet(data[pr[1]], pr[2]) = B
                /\ pr \in uses[B]

\* C3: insert renumbering: on a list of owner N with length n whose elements
\* hold their pairs, insert(i, v) with 0 <= i <= n completes; the list then
\* has length n+1 with v at i and (N, i) in v.uses; what was at k >= i is at
\* k+1 and holds (N, k+1); what was at k < i stays and keeps (N, k); and the
\* pairs keyed by N are exactly the new positions (so (N, k) is gone from a
\* shifted element unless that node now also sits at k).
C3_InsertRenumbering ==
    (Returned("insert") /\ 0 <= call.ix.i /\ call.ix.i <= Len(pre.data[call.node]))
    => LET N == call.node
           i == call.ix.i
           v == call.value
           old == pre.data[N]
           n == Len(old)
       IN /\ result.err = "ok"
          /\ Len(data[N]) = n + 1
          /\ data[N][i + 1] = v
          /\ <<N, i>> \in uses[v]
          /\ \A k \in i .. n - 1 :
                /\ data[N][k + 2] = old[k + 1]
                /\ <<N, k + 1>> \in uses[old[k + 1]]
          /\ \A k \in 0 .. i - 1 :
                /\ data[N][k + 1] = old[k + 1]
                /\ <<N, k>> \in uses[old[k + 1]]
          /\ OwnerExact(data, uses, N)

\* an insert in the middle of a list: one element stays, one is shifted
C3_Witness ==
    /\ Returned("insert")
    /\ result.err = "ok"
    /\ call.ix.i = 1
    /\ Len(pre.data[call.node]) = 2
    /\ pre.data[call.node][1] # pre.data[call.node][2]

\* C4: delete renumbering: on a list of owner N with length n whose elements
\* hold their pairs, delete(i) with 0 <= i < n completes; the list then has
\* length n-1; the removed element's pair (N, i) is gone; what was at k > i
\* is at k-1 and holds (N, k-1); what was at k < i stays and keeps (N, k);
\* the pairs keyed by N are exactly the new positions.  In particular
\* deleting index 1 of a list [f, x, y] of three different nodes, such as
\* that of Apply(f, x, y), leaves inputs [f, y], y.uses = {(N, 1)} and
\* x.uses empty.
C4_DeleteRenumbering ==
    (Returned("delete") /\ IntCall /\ 0 <= call.ix.i /\ call.ix.i < Len(pre.data[call.node]))
    => LET N == call.node
           i == call.ix.i
           old == pre.data[N]
           n == Len(old)
       IN /\ result.err = "ok"
          /\ Len(data[N]) = n - 1
          /\ (<<N, i>> \in uses[old[i + 1]] => (i < n - 1 /\ old[i + 2] = old[i + 1]))
          /\ \A k \in i + 1 .. n - 1 :
                /\ data[N][k] = old[k + 1]
                /\ <<N, k - 1>> \in uses[old[k + 1]]
          /\ \A k \in 0 .. i - 1 :
                /\ data[N][k + 1] = old[k + 1]
                /\ <<N, k>> \in uses[old[k + 1]]
          /\ OwnerExact(data, uses, N)
          /\ \A f \in Nodes, x \in Nodes, y \in Nodes :
                (/\ Cardinality({f, x, y}) = 3
                 /\ old = <<f, x, y>>
                 /\ i = 1
                 /\ pre.uses[x] = {<<N, 1>>}
                 /\ pre.uses[y] = {<<N, 2>>})
                => (data[N] = <<f, y>> /\ uses[y] = {<<N, 1>>} /\ uses[x] = {})

\* index 1 of a list [f, x, y] of three different nodes has been deleted,
\* x and y being used nowhere else
C4_Witness ==
    /\ Returned("delete")
    /\ result.err = "ok"
    /\ IntCall
    /\ call.ix.i = 1
    /\ Len(pre.data[call.node]) = 3
    /\ Cardinality({pre.data[call.node][k] : k \in 1 .. 3}) = 3
    /\ pre.uses[pre.data[call.node][2]] = {<<call.node, 1>>}
    /\ pre.uses[pre.data[call.node][3]] = {<<call.node, 2>>}
    /\ uses[pre.data[call.node][3]] = {<<call.node, 1>>}

\* C5: set(i, new) on an in-range index i holding old removes (N, i) from
\* old.uses, adds it to new.uses and puts new in slot i; the length, every
\* other slot, every other list and every other use-set entry are unchanged;
\* when new is old the state is what it was before the call.
C5_SetItem ==
    (Returned("set") /\ IntCall /\ 0 <= call.ix.i /\ call.ix.i < Len(pre.data[call.node]))
    => LET N == call.node
           i == call.ix.i
           new == call.value
           old == pre.data[N][i + 1]
       IN /\ result.err = "ok"
          /\ data = [pre.data EXCEPT ![N] = [@ EXCEPT ![i + 1] = new]]
          /\ \A m \in Nodes :
                uses[m] = IF m = new THEN pre.uses[m] \cup {<<N, i>>}
                          ELSE IF m = old THEN pre.uses[m] \ {<<N, i>>}
                          ELSE pre.uses[m]
          /\ (new = old => (data = pre.data /\ uses = pre.uses))

\* a slot has been given another node than it held
C5_Witness ==
    /\ Returned("set")
    /\ result.err = "ok"
    /\ IntCall
    /\ call.ix.i = 1
    /\ Len(pre.data[call.node]) = 2
    /\ pre.data[call.node][2] # call.value
    /\ <<call.node, 1>> \in uses[call.value]

\* the slot has been given the node it already held
C5_WitnessSame ==
    /\ Returned("set")
    /\ result.err = "ok"
    /\ IntCall
    /\ call.ix.i = 0
    /\ Len(pre.data[call.node]) >= 1
    /\ pre.data[call.node][1] = call.value

\* C6: fail-fast, not fail-partial: whenever insert, set, delete, clear or
\* replace raises, every input list and every use-set is as it was before the
\* call.
C6_FailFast ==
    (call.op \in {"insert", "set", "delete", "clear", "replace"} /\ result.err # "ok")
    => (data = pre.data /\ uses = pre.uses)

\* C7: out-of-range access: get, set and delete with an integer index outside
\* -n .. n-1 on a list of length n fail with an index error.
C7_OutOfRangeIndexError ==
    (/\ call.op \in {"get", "set", "delete"}
     /\ IntCall
     /\ (call.ix.i < -Len(pre.data[call.node]) \/ call.ix.i >= Len(pre.data[call.node])))
    => result.err = "IndexError"

\* C8: slice operations fail fast: set and delete called with a slice raise
\* the unsupported-operation error (ValueError in the code) for every slice
\* and every list, and leave all input lists and use-sets unchanged.
C8_SliceFailFast ==
    (call.op \in {"set", "delete"} /\ IsSlice(call.ix))
    => (result.err = "ValueError" /\ data = pre.data /\ uses = pre.uses)

\* a slice was used on a non-empty list, an empty slice included
C8_Witness ==
    /\ call.op \in {"set", "delete"}
    /\ call.ix = SliceIx(0, 0)
    /\ Len(pre.data[call.node]) = 2
    /\ result.err = "ValueError"

\* C10: replace with zero uses: when A.uses is empty and B is another node,
\* A.replace(B) completes without error, leaves A.inputs empty, gives B
\* exactly A's former inputs with the pairs (B, j), and changes no other
\* node's input list.
C10_ReplaceZeroUses ==
    (Returned("replace") /\ pre.uses[call.node] = {})
    => LET A == call.node
           B == call.value
       IN /\ result.err = "ok"
          /\ data[A] = <<>>
          /\ data[B] = pre.data[A]
          /\ \A j \in 0 .. Len(pre.data[A]) - 1 : <<B, j>> \in uses[pre.data[A][j + 1]]
          /\ OwnerExact(data, uses, B)
          /\ \A m \in Nodes \ {A, B} : data[m] = pre.data[m]

\* a node without uses but with inputs has been replaced by a node that had
\* inputs of its own
C10_Witness ==
    /\ Returned("replace")
    /\ result.err = "ok"
    /\ pre.uses[call.node] = {}
    /\ Len(pre.data[call.node]) = 2
    /\ Len(pre.data[call.value]) = 1
    /\ data[call.value] = pre.data[call.node]

\* the stepwise methods leave what the methods leave when run in one piece
StepsAgree ==
    (frame.pc = "idle" /\ call.op \in {"insert", "delete"})
    => LET st0 == Heap(pre.data, pre.uses)
           st1 == IF call.op = "insert"
                  THEN insert(st0, call.node, call.ix.i, call.value)
                  ELSE delitem(st0, call.node, call.ix)
       IN data = st1.data /\ uses = st1.uses /\ result.err = st1.err

\* the list of the call's owner before the call and as the call leaves it
OldList == pre.data[call.node]
NewList ==
    IF call.op = "insert" THEN ListInsert(OldList, frame.index, call.value)
    ELSE ListDel(OldList, frame.index)

\* the old positions of the elements the call keeps, and where each ends up
Kept ==
    IF call.op = "insert" THEN 0 .. Len(OldList) - 1
    ELSE (0 .. Len(OldList) - 1) \ {ListPos(OldList, frame.index)}
NewPos(p) ==
    IF call.op = "insert"
    THEN (IF p < ListClamp(OldList, frame.index) THEN p ELSE p + 1)
    ELSE (IF p < ListPos(OldList, frame.index) THEN p ELSE p - 1)

\* the old position of the element whose old pair is removed and whose new
\* pair is not yet added; -1 when there is none
Rekeying == IF frame.pc = "add" THEN Head(frame.rekeys)[2] ELSE -1

\* C9: no transient duplicate or gap during renumbering: with every single
\* use-set removal and addition of insert and delete as a step, in every
\* state inside the call no pair (owner, k) is in the use-sets of two
\* different nodes, no node holds a pair (owner, k) for a position that the
\* old and the new numbering both give to another node, and only the element
\* being re-keyed can be without both its old and its new pair.
C9_NoTransientDuplicateOrGap ==
    (frame.pc # "idle")
    => LET N == call.node IN
       /\ \A m1 \in Nodes, m2 \in Nodes :
             m1 # m2 => \A pr \in uses[m1] : pr[1] = N => pr \notin uses[m2]
       /\ \A m \in Nodes : \A pr \in uses[m] :
             pr[1] = N =>
                ~ (/\ 0 <= pr[2] /\ pr[2] < Len(OldList) /\ OldList[pr[2] + 1] # m
                   /\ pr[2] < Len(NewList) /\ NewList[pr[2] + 1] # m)
       /\ \A p \in Kept :
             (/\ <<N, p>> \notin uses[OldList[p + 1]]
              /\ <<N, NewPos(p)>> \notin uses[OldList[p + 1]])
             => p = Rekeying

\* an insert that shifts two different nodes has re-keyed the upper one and
\* has removed the old pair of the lower one
C9_Witness ==
    /\ call.op = "insert"
    /\ frame.pc = "add"
    /\ Len(OldList) = 2
    /\ OldList[1] # OldList[2]
    /\ frame.index = 0
    /\ Len(frame.rekeys) = 1
    /\ <<call.node, 2>> \in uses[OldList[2]]
    /\ <<call.node, 0>> \notin uses[OldList[1]]

\* a delete has removed the pair of the deleted element and the old pair of
\* the element behind it
C9_WitnessDelete ==
    /\ call.op = "delete"
    /\ frame.pc = "add"
    /\ Len(OldList) = 3
    /\ frame.index = 0
    /\ Len(frame.rekeys) = 2

\* A.uses as it stands when the loop of replace begins: after B has taken
\* A's inputs and A's own list is cleared
LoopStartUses ==
    clear(inputs_setter(Heap(pre.data, pre.uses), call.value, pre.data[call.node]),
          call.node).uses[call.node]

\* C11: replace rewires over a stable snapshot: the pairs replace rewrites
\* are exactly A.uses as it stood when the loop began, and replace completes
\* without error whenever A has one or more uses.
C11_ReplaceStableSnapshot ==
    (Returned("replace") /\ LoopStartUses # {})
    => /\ result.err = "ok"
       /\ \A pr \in LoopStartUses :
             /\ ListGet(data[pr[1]], pr[2]) = call.value
             /\ pr \in uses[call.value]
             /\ pr \notin uses[call.node]

\* C12: clear on the input list of owner N removes every pair keyed by N
\* from every use-set and leaves the list empty, touching nothing else; on an
\* empty list it changes nothing and raises no error; a second clear leaves
\* the state of the first.
C12_Clear ==
    Returned("clear")
    => /\ result.err = "ok"
       /\ data = [pre.data EXCEPT ![call.node] = <<>>]
       /\ \A m \in Nodes :
             uses[m] = {pr \in pre.uses[m] : pr[1] # call.node}
       /\ pre.data[call.node] = <<>> => Here = Heap(pre.data, pre.uses)
       /\ clear(Here, call.node) = Here

\* a clear of a list of two or more inputs, one of them held twice, has returned
C12_Witness ==
    /\ Returned("clear")
    /\ result.err = "ok"
    /\ Len(pre.data[call.node]) >= 2
    /\ \E m \in Nodes : Cardinality(KeyedBy(pre.uses, call.node, m)) >= 2
    /\ data[call.node] = <<>>

\* a clear of an already empty list has returned
C12_WitnessEmpty ==
    /\ Returned("clear")
    /\ pre.data[call.node] = <<>>
    /\ \E m \in Nodes : data[m] # <<>>

\* C13: iterating M.outgoing produces each node that uses M exactly once,
\* also when one user holds M at two or more positions of its input list.
C13_OutgoingDistinct ==
    Returned("outgoing")
    => \A u \in Nodes :
          result.ret[u] = IF PositionsOf(data[u], call.node) # {} THEN 1 ELSE 0

\* the call is an insert, delete or set with an in-range integer index
\* (-n..n for insert, -n..n-1 for delete and set) on a list of length n
InRangeEdit ==
    /\ call.op \in {"insert", "delete", "set"}
    /\ IntCall
    /\ -Len(pre.data[call.node]) <= call.ix.i
    /\ call.ix.i < Len(pre.data[call.node]) + (IF call.op = "insert" THEN 1 ELSE 0)

\* some node sits at two or more positions of the list the call is made on
RepeatedBefore ==
    \E m \in Nodes : Cardinality(PositionsOf(pre.data[call.node], m)) >= 2

\* C16: when a node M occupies several positions of owner N's list, M.uses
\* holds one pair (N, i) per occupied position, and after any in-range
\* insert, delete or set on that list every node's pairs keyed by N are
\* exactly the positions where it now sits: none lost, none stale.
C16_RepeatedInputs ==
    (InRangeEdit /\ RepeatedBefore /\ Returned(call.op))
    => /\ OwnerExact(pre.data, pre.uses, call.node)
       /\ result.err = "ok"
       /\ OwnerExact(data, uses, call.node)

\* a delete at position 0 of [x, M, M] has returned: M's pairs (N, 1) and
\* (N, 2) were re-keyed to (N, 0) and (N, 1)
C16_Witness ==
    /\ Returned("delete") /\ InRangeEdit
    /\ call.ix.i = 0
    /\ \E m \in Nodes :
          /\ PositionsOf(pre.data[call.node], m) = {1, 2}
          /\ KeyedBy(uses, call.node, m) = {0, 1}

\* an insert in front of two positions holding the same node has returned
C16_WitnessInsert ==
    /\ Returned("insert") /\ InRangeEdit
    /\ \E m \in Nodes :
          /\ PositionsOf(pre.data[call.node], m) = {0, 1}
          /\ KeyedBy(uses, call.node, m) = {1, 2}

\* a set on one of two positions holding the same node has returned
C16_WitnessSet ==
    /\ Returned("set") /\ InRangeEdit
    /\ \E m \in Nodes :
          /\ PositionsOf(pre.data[call.node], m) = {0, 1}
          /\ KeyedBy(uses, call.node, m) = {1}

\* the heap and the returned value that the operation of the pending call
\* leaves when it is made on the heap before the call with integer index j
SameCallAt(j) ==
    LET st == Heap(pre.data, pre.uses)
        n == call.node
    IN CASE call.op = "get" ->
              <<Raise(st, getitem_err(st, n, j)), getitem_ret(st, n, j)>>
         [] call.op = "set" -> <<setitem(st, n, IntIx(j), call.value), 0>>
         [] call.op = "delete" -> <<delitem(st, n, IntIx(j)), 0>>
         [] call.op = "insert" -> <<insert(st, n, j, call.value), 0>>

\* the call is a get, set, delete or insert with index -k, 1 <= k <= n
NegativeIndexCall ==
    /\ call.op \in {"get", "set", "delete", "insert"}
    /\ IntCall
    /\ call.ix.i <= -1
    /\ -Len(pre.data[call.node]) <= call.ix.i

\* C17: for a list of length n and 1 <= k <= n, get(-k), set(-k, v),
\* delete(-k) and insert(-k, v) succeed with exactly the result and final
\* state of the same call with index n-k, and every reverse edge is recorded
\* with the non-negative position, never with the negative index.
C17_NegativeIndices ==
    (NegativeIndexCall /\ Returned(call.op))
    => /\ result.err = "ok"
       /\ <<[data |-> data, uses |-> uses, err |-> result.err], result.ret>>
             = SameCallAt(Len(pre.data[call.node]) + call.ix.i)
       /\ \A m \in Nodes : \A pr \in uses[m] : pr[2] >= 0
       /\ OwnerExact(data, uses, call.node)

\* insert(-1, v) on a list of two inputs has returned: v sits at position 1
C17_Witness ==
    /\ Returned("insert") /\ NegativeIndexCall
    /\ call.ix.i = -1
    /\ Len(pre.data[call.node]) = 2
    /\ data[call.node][2] = call.value
    /\ <<call.node, 1>> \in uses[call.value]

\* delete(-2) on a list of two or more inputs has returned
C17_WitnessDelete ==
    /\ Returned("delete") /\ NegativeIndexCall
    /\ call.ix.i = -2
    /\ Len(data[call.node]) >= 1

\* set(-1, v) with a new value and get(-1) have returned
C17_WitnessSet ==
    /\ Returned("set") /\ NegativeIndexCall
    /\ call.ix.i = -1
    /\ ListGet(pre.data[call.node], -1) # call.value

C17_WitnessGet ==
    /\ Returned("get") /\ NegativeIndexCall
    /\ call.ix.i = -2
    /\ result.ret = pre.data[call.node][Len(pre.data[call.node]) - 1]

\* C18: on a list of owner N with length n, insert(i, v) with i > n places v
\* at the end and insert(i, v) with i < -n places v at the front, and the
\* pair added to v.uses is (N, p) for the position p where v then sits, with
\* all shifted elements re-keyed to their new positions.
C18_InsertOutsideRange ==
    LET n == Len(pre.data[call.node])
        p == IF call.ix.i > n THEN n ELSE 0
    IN (/\ Returned("insert") /\ IntCall
        /\ (call.ix.i > n \/ call.ix.i < -n))
       => /\ result.err = "ok"
          /\ data[call.node] = ListInsert(pre.data[call.node], p, call.value)
          /\ <<call.node, p>> \in uses[call.value]
          /\ OwnerExact(data, uses, call.node)

\* A.replace(B) has returned or raised, and B had inputs before the call
ReplacedHadInputs == Returned("replace") /\ pre.data[call.value] # <<>>

\* B's former inputs are dropped: the pairs keyed by B are exactly those of
\* the list B now holds, which is A's former input list, position by
\* position, but for the positions that held A itself, which replace rewires
DiscardsOwnInputs ==
    LET A == call.node
        B == call.value
    IN /\ OwnerExact(data, uses, B)
       /\ Len(data[B]) = Len(pre.data[A])
       /\ \A j \in 1 .. Len(pre.data[A]) :
             data[B][j] = pre.data[A][j] \/ (pre.data[A][j] = A /\ data[B][j] = B)

\* C19 as stated: replace discards the replacement's own inputs: when B has
\* inputs before A.replace(B), they are dropped with every pair (B, j) they
\* contributed, so the only pairs keyed by B are those for A's former
\* inputs; B's own use-set entries from users other than A are kept.
C19_ReplaceDiscardsInputs_Stated ==
    ReplacedHadInputs
    => /\ DiscardsOwnInputs
       /\ \A pr \in pre.uses[call.value] :
             pr[1] # call.node => pr \in uses[call.value]

\* C19, amended: as stated, but B's own use-set entries are kept for users
\* other than A and other than B itself: an entry (B, j) of B.uses is one of
\* the pairs that B's dropped inputs contributed, and goes with them.
C19_ReplaceDiscardsInputs ==
    ReplacedHadInputs
    => /\ DiscardsOwnInputs
       /\ \A pr \in pre.uses[call.value] :
             pr[1] \notin {call.node, call.value} => pr \in uses[call.value]

\* B had an input other than itself and a user other than A and B
C19_Witness ==
    /\ ReplacedHadInputs
    /\ \E m \in Nodes \ {call.value} :
          /\ PositionsOf(pre.data[call.value], m) # {}
          /\ KeyedBy(uses, call.value, m) = PositionsOf(pre.data[call.node], m)
    /\ \E pr \in pre.uses[call.value] :
          pr[1] \notin {call.node, call.value} /\ pr \in uses[call.value]

\* the pairs of use-set s whose user is not n
PairsOfOthers(s, n) == {pr \in s : pr[1] # n}

\* C20: a completed insert, set, delete or clear on the input list of owner
\* N changes only N's own list and the use-set entries whose user is N:
\* every other node's list and every pair (U, i) with U other than N are
\* unchanged; get, length and iteration change nothing at all.
C20_Locality ==
    /\ (call.op \in {"insert", "set", "delete", "clear"} /\ result.err = "ok"
        /\ Returned(call.op))
       => /\ \A m \in Nodes \ {call.node} : data[m] = pre.data[m]
          /\ \A m \in Nodes :
                PairsOfOthers(uses[m], call.node)
                   = PairsOfOthers(pre.uses[m], call.node)
    /\ (call.op \in {"get", "len", "incoming"} /\ Returned(call.op))
       => /\ data = pre.data
          /\ uses = pre.uses

\* a set has completed on a slot whose old value and whose new value are
\* both held by another user at the same index
C20_Witness ==
    /\ Returned("set") /\ result.err = "ok" /\ IntCall
    /\ call.ix.i = 0
    /\ ListGet(pre.data[call.node], 0) # call.value
    /\ \E u \in Nodes \ {call.node} :
          /\ <<u, 0>> \in pre.uses[ListGet(pre.data[call.node], 0)]
          /\ <<u, 0>> \in uses[ListGet(pre.data[call.node], 0)]

\* a delete has completed while another node had inputs of its own
C20_WitnessDelete ==
    /\ Returned("delete") /\ result.err = "ok"
    /\ \E u \in Nodes \ {call.node} : data[u] # <<>> /\ data[u] = pre.data[u]

\* an iteration over a list of two inputs has returned them in order
C20_WitnessIteration ==
    /\ Returned("incoming")
    /\ Len(data[call.node]) = 2
    /\ result.ret = data[call.node]

\* a constructor has just built node call.node
Constructed == call.op \in {"Apply", "Parameter", "Return", "Constant"}

\* C14: variant shape at construction: a node built by Parameter has 0
\* inputs and value PARAMETER; a node built by Return from input v has
\* exactly 1 input, v, value RETURN, and (Return, 0) is in v.uses; a node
\* built by Constant has 0 inputs and no owning graph; every freshly
\* constructed node has an empty use-set.
C14_VariantShape ==
    Constructed
    => /\ result.err = "ok"
       /\ uses[call.node] = {}
       /\ call.op = "Parameter"
             => data[call.node] = <<>> /\ value[call.node] = PARAMETER
       /\ call.op = "Return"
             => /\ data[call.node] = <<call.value>>
                /\ value[call.node] = RETURN
                /\ <<call.node, 0>> \in uses[call.value]
       /\ call.op = "Constant"
             => data[call.node] = <<>> /\ graph[call.node] = None

\* a Return has been built from an input that already had a user
C14_Witness ==
    /\ call.op = "Return"
    /\ Len(data[call.node]) = 1
    /\ \E pr \in uses[call.value] : pr[1] # call.node

\* a Parameter and a Constant have been built among nodes that have edges
C14_WitnessParameter ==
    /\ call.op = "Parameter"
    /\ \E m \in Made : data[m] # <<>>

C14_WitnessConstant ==
    /\ call.op = "Constant"
    /\ value[call.node] \in ConstantValues
    /\ \E m \in Made : data[m] # <<>>

\* C15: building an Apply from a sequence s of nodes yields inputs equal to
\* s in order, with (Apply, j) in s[j].uses for every j and no other pair
\* keyed by the new node anywhere; append(v) on a list of length n is
\* insert(n, v): v is at position n, (owner, n) is in v.uses, and positions
\* 0..n-1 and their pairs are as they were.
C15_ConstructionAndAppend ==
    /\ call.op = "Apply"
       => /\ result.err = "ok"
          /\ data[call.node] = call.value
          /\ \A j \in 0 .. Len(call.value) - 1 :
                <<call.node, j>> \in uses[call.value[j + 1]]
          /\ OwnerExact(data, uses, call.node)
          /\ \A m \in Nodes \ {call.node} : data[m] = pre.data[m]
    /\ Returned("append")
       => LET n == Len(pre.data[call.node])
              st == insert(Heap(pre.data, pre.uses), call.node, n, call.value)
          IN /\ result.err = "ok"
             /\ data = st.data /\ uses = st.uses
             /\ data[call.node] = Append(pre.data[call.node], call.value)
             /\ uses = [pre.uses EXCEPT ![call.value] = @ \cup {<<call.node, n>>}]
             /\ \A m \in Nodes \ {call.node} : data[m] = pre.data[m]

\* an Apply has been built from three inputs, one node given twice
C15_Witness ==
    /\ call.op = "Apply"
    /\ Len(call.value) = 3
    /\ call.value[1] = call.value[3]
    /\ call.value[1] # call.value[2]
    /\ data[call.node] = call.value

\* an append to a list of two inputs has returned
C15_WitnessAppend ==
    /\ Returned("append")
    /\ Len(pre.data[call.node]) = 2
    /\ data[call.node][3] = call.value
    /\ <<call.node, 2>> \in uses[call.value]

====
